---- MODULE Spec2Model ----
(***************************************************************************)
(* A model of data_help/modelling.py: the module's import-time backend     *)
(* selection and its two functions, train_classifier and                   *)
(* feature_importance.                                                     *)
(*                                                                         *)
(* Every call is synchronous and single-threaded, so one action models one *)
(* whole call.  What a call did is kept as a log: the sequence of the      *)
(* collaborator calls and prints it made, in program order, each marked as *)
(* having returned or raised.  Python's exception semantics are modelled   *)
(* by the running result r: once r.outcome is no longer "running" every    *)
(* later statement of the function is skipped (the module holds no         *)
(* try/except).                                                            *)
(*                                                                         *)
(* The collaborators (scikit-learn, matplotlib, pandas, seaborn) are the   *)
(* environment.  A collaborator call may raise for reasons of its own      *)
(* (shape mismatch, unsupported labels, ...): failAt is the ordinal of the *)
(* collaborator call of the current call that raises, 0 for none.  Two     *)
(* behaviours of the collaborators are decided by what the module's text   *)
(* passes to them and are modelled as such: plt.switch_backend requires    *)
(* its argument, and cross_val_score rejects a scoring callable that is a  *)
(* metric function of sklearn.metrics.  A step the module performs itself  *)
(* on a collaborator's value (the subscript of predict_proba's result) is  *)
(* no collaborator call: it raises by the kind of value it is given.       *)
(***************************************************************************)
EXTENDS Integers, Sequences, FiniteSets, TLC

VARIABLES
    platform,   \* platform.system() of the host
    module,     \* "unloaded", "loaded" or "import_failed"
    backend,    \* the process-wide plotting backend
    switches,   \* completed plt.switch_backend calls
    fn,         \* the function last called
    args,       \* its arguments
    failAt,     \* the ordinal of its collaborator call that raises, 0 for none
    log,        \* the collaborator calls and prints it made, in order
    outcome,    \* "returned" or the type of the exception it raised
    msg,        \* the exception's message
    ret,        \* the value it returned
    table       \* the importance table it built

vars == <<platform, module, backend, switches, fn, args, failAt, log, outcome, msg, ret, table>>

\* ------------------------------------------------------------------ bounds

\* Largest number of folds (cv) a call is given; the smallest is 2.
MaxCv == 3

\* Largest ordinal of a collaborator call that the environment makes raise
\* (the single-fit path makes 12 collaborator calls).
MaxFailAt == 12

\* Largest number of features of an estimator / names of a name list.
MaxFeat == 3

\* Importance scores are drawn from 0..MaxScore (tenths).
MaxScore == 2

\* ------------------------------------------------------------------ values

None == "None"
Data == "data"

Platforms == {"Darwin", "Linux", "Windows"}

\* The attributes an estimator object may expose.
EstimatorAttrs == {"fit", "predict", "predict_proba", "feature_importances_"}

FeatureNames == {"a", "b", "c"}

SeqsUpTo(S, n) == UNION {[1..k -> S] : k \in 0..n}

\* The four metric functions imported from sklearn.metrics that the
\* cross-validation branch uses as scorers, in the order of the list.
scorers ==
    << <<"Accuracy", "accuracy_score">>,
       <<"F1-score", "f1_score">>,
       <<"Precision", "precision_score">>,
       <<"Recall", "recall_score">> >>

\* The names the module imports from sklearn.metrics: metric functions,
\* whose __module__ is below sklearn.metrics.
SklearnMetricFunctions ==
    {"accuracy_score", "f1_score", "precision_score", "recall_score",
     "confusion_matrix", "classification_report", "roc_curve", "roc_auc_score"}

\* The names bound at module level once the module body has run.
ModuleGlobals ==
    {"cross_val_score"} \cup SklearnMetricFunctions
    \cup {"plt", "Union", "pd", "np", "sns", "platform",
          "train_classifier", "feature_importance"}

\* ------------------------------------------------------------------ events

\* One collaborator call or print of a call: the operation, its two data
\* arguments (by the name of the parameter or local they come from), an
\* integer argument (cv), a sequence of values (fold scores returned, or
\* the numbers printed) and whether it returned (ok) or raised.
Ev(op, x, y, n, val, ok) == [op |-> op, x |-> x, y |-> y, n |-> n, val |-> val, ok |-> ok]

\* The result of a call so far.
Start ==
    [log |-> <<>>, ncalls |-> 0, outcome |-> "running", msg |-> "",
     value |-> <<>>, ret |-> "unset", table |-> <<>>]

\* raise ExcType(message)
Raise(r, exc, message) ==
    IF r.outcome # "running" THEN r
    ELSE [r EXCEPT !.outcome = exc, !.msg = message]

\* Variant of Call: the collaborator's exception is swallowed and the
\* function goes on, as under a try/except that passes.
CallSwallowing(r, fa, op, x, y, n) ==
    LET idx == r.ncalls + 1
        raises == (idx = fa)
    IN  [r EXCEPT !.log = Append(@, Ev(op, x, y, n, <<>>, ~raises)),
                  !.ncalls = idx]

\* A call of a collaborator function: it is made if the call is still
\* running, and raises if the environment says so; the exception is not
\* caught, so the result stops running.
Call(r, fa, op, x, y, n) ==
    IF r.outcome # "running" THEN r
    ELSE LET idx == r.ncalls + 1
             raises == (idx = fa)
         IN  [r EXCEPT !.log = Append(@, Ev(op, x, y, n, <<>>, ~raises)),
                       !.ncalls = idx,
                       !.outcome = IF raises THEN "CollaboratorError" ELSE "running",
                       !.msg = IF raises THEN op ELSE ""]

\* A call of a method of the estimator: attribute lookup fails with
\* AttributeError when the estimator does not expose it.
MethodCall(r, fa, est, op, x, y) ==
    IF r.outcome # "running" THEN r
    ELSE IF op \notin est.attrs THEN Raise(r, "AttributeError", op)
    ELSE Call(r, fa, op, x, y, 0)

\* print(...): writes one line; it does not raise.
PrintLine(r, what, val) ==
    IF r.outcome # "running" THEN r
    ELSE [r EXCEPT !.log = Append(@, Ev("print", what, "", 0, val, TRUE))]

\* return value
Return(r, v) ==
    IF r.outcome # "running" THEN r
    ELSE [r EXCEPT !.outcome = "returned", !.ret = v]

\* ------------------------------------------------------------------ numbers

RECURSIVE SumSeq(_)
SumSeq(s) == IF s = <<>> THEN 0 ELSE Head(s) + SumSeq(Tail(s))

RECURSIVE SumSquares(_)
SumSquares(s) == IF s = <<>> THEN 0 ELSE Head(s) * Head(s) + SumSquares(Tail(s))

\* The integer square root of n, searched between lo and hi.
RECURSIVE ISqrtBetween(_, _, _)
ISqrtBetween(n, lo, hi) ==
    IF lo >= hi THEN lo
    ELSE LET mid == (lo + hi + 1) \div 2
         IN  IF mid * mid <= n THEN ISqrtBetween(n, mid, hi)
             ELSE ISqrtBetween(n, lo, mid - 1)

ISqrt(n) == ISqrtBetween(n, 0, 46340)

\* f"{cv_score.mean():.4f}": the arithmetic mean of the scores, rounded to
\* four decimals, in units of 0.0001 (no mean of at most 31 scores in
\* {0, 1} lies half way between two such units).
Mean4(s) == (2 * 10000 * SumSeq(s) + Len(s)) \div (2 * Len(s))

\* f"{cv_score.std():.4f}": the population standard deviation
\* sqrt(k * sum(x^2) - sum(x)^2) / k, rounded to four decimals.
Std4(s) ==
    LET k == Len(s)
        n == k * SumSquares(s) - SumSeq(s) * SumSeq(s)
        r == ISqrt(n * 100000000)
        twice == IF r * r + r + 1 <= n * 100000000 THEN 2 * r + 1 ELSE 2 * r
    IN  (twice + k) \div (2 * k)

\* The first k elements of s.
Take(s, k) == [i \in 1..k |-> s[i]]

\* ------------------------------------------------------------------ train_classifier

\* hasattr(estimator, name)
hasattr(est, name) == name \in est.attrs

\* Variant of NullCheck: the check of y_val is missing.
NullCheckSkippingLast(a) ==
    IF a.X_train = None THEN "X_train"
    ELSE IF a.y_train = None THEN "y_train"
    ELSE IF a.X_val = None THEN "X_val"
    ELSE ""

\* The null checks, in their order: the name of the first required
\* argument that is None, "" when there is none.
NullCheck(a) ==
    IF a.X_train = None THEN "X_train"
    ELSE IF a.y_train = None THEN "y_train"
    ELSE IF a.X_val = None THEN "X_val"
    ELSE IF a.y_val = None THEN "y_val"
    ELSE ""

\* sklearn.model_selection.cross_val_score(estimator, X, y, scoring=, cv=).
\* Its first step, check_scoring, raises ValueError for a callable whose
\* __module__ is below sklearn.metrics ("looks like it is a metric function
\* rather than a scorer"); otherwise it evaluates cv folds on clones of the
\* estimator and returns the cv fold scores.
cross_val_score(r, fa, scoring, x, y, cv, foldScores) ==
    IF r.outcome # "running" THEN r
    ELSE LET idx == r.ncalls + 1
         IN  IF idx = fa
             THEN [r EXCEPT !.log = Append(@, Ev("cross_val_score", x, y, cv, <<>>, FALSE)),
                            !.ncalls = idx,
                            !.outcome = "CollaboratorError",
                            !.msg = "cross_val_score"]
             ELSE IF scoring \in SklearnMetricFunctions
             THEN [r EXCEPT !.log = Append(@, Ev("cross_val_score", x, y, cv, <<>>, FALSE)),
                            !.ncalls = idx,
                            !.outcome = "ValueError",
                            !.msg = "scoring value looks like it is a metric function rather than a scorer"]
             ELSE [r EXCEPT !.log = Append(@, Ev("cross_val_score", x, y, cv, Take(foldScores, cv), TRUE)),
                            !.ncalls = idx,
                            !.value = Take(foldScores, cv)]

\* for metric_name, scorer in scorers: cv_score = cross_val_score(...);
\* print(f'{metric_name}: {mean:.4f} +/- {std:.4f}')
RECURSIVE CrossValidate(_, _, _, _, _)
CrossValidate(r, todo, a, fa, foldScores) ==
    IF todo = <<>> THEN r
    ELSE LET metric_name == Head(todo)[1]
             scorer == Head(todo)[2]
             r1 == cross_val_score(r, fa, scorer, "X_train", "y_train", a.cv, foldScores)
             r2 == IF r1.outcome # "running" THEN r1
                   ELSE PrintLine(r1, metric_name, <<Mean4(r1.value), Std4(r1.value)>>)
         IN  CrossValidate(r2, Tail(todo), a, fa, foldScores)

\* estimator.predict_proba(X_val)[:, 1]: the module itself subscripts the
\* value predict_proba returned.  A list of rows does not take a tuple
\* index (TypeError); a matrix of one column has no column 1 (IndexError).
\* The subscript is no collaborator call and leaves no entry in the log.
SubscriptColumn(r, est) ==
    IF r.outcome # "running" THEN r
    ELSE IF est.proba = "list_of_rows"
    THEN Raise(r, "TypeError", "list indices must be integers or slices, not tuple")
    ELSE IF est.proba = "one_column"
    THEN Raise(r, "IndexError", "index 1 is out of bounds for axis 1 with size 1")
    ELSE r

\* The ROC plot of the single-fit branch.
RocPlot(r, a, fa) ==
    LET r0 == MethodCall(r, fa, a.estimator, "predict_proba", "X_val", "")
        r1 == SubscriptColumn(r0, a.estimator)
        r2 == Call(r1, fa, "roc_curve", "y_val", "y_pred_proba", 0)
        r3 == Call(r2, fa, "roc_auc_score", "y_val", "y_pred_proba", 0)
        r4 == Call(r3, fa, "plot", "fpr", "tpr", 0)
        r5 == Call(r4, fa, "plot", "[0, 1]", "[0, 1]", 0)
        r6 == Call(r5, fa, "xlabel", "False Positive Rate", "", 0)
        r7 == Call(r6, fa, "ylabel", "True Positive Rate", "", 0)
    IN  Call(r7, fa, "title", "Receiver Operating Characteristic Curve", "", 0)

\* Variant of Evaluate: predict is called before fit.
EvaluatePredictFirst(r, a, fa) ==
    LET r1 == MethodCall(r, fa, a.estimator, "predict", "X_val", "")
        r2 == MethodCall(r1, fa, a.estimator, "fit", "X_train", "y_train")
        r3 == Call(r2, fa, "classification_report", "y_val", "y_pred", 0)
        r4 == PrintLine(r3, "classification_report", <<>>)
        r5 == Call(r4, fa, "confusion_matrix", "y_val", "y_pred", 0)
    IN  PrintLine(r5, "confusion_matrix", <<>>)

\* The else branch: fit, predict, report, confusion matrix.
Evaluate(r, a, fa) ==
    LET r1 == MethodCall(r, fa, a.estimator, "fit", "X_train", "y_train")
        r2 == MethodCall(r1, fa, a.estimator, "predict", "X_val", "")
        r3 == Call(r2, fa, "classification_report", "y_val", "y_pred", 0)
        r4 == PrintLine(r3, "classification_report", <<>>)
        r5 == Call(r4, fa, "confusion_matrix", "y_val", "y_pred", 0)
    IN  PrintLine(r5, "confusion_matrix", <<>>)

\* Variant of RocIfSupported: the hasattr guard is missing.
RocIfSupportedUnguarded(r, a, fa) == RocPlot(r, a, fa)
\* if hasattr(estimator, "predict_proba"): ...
RocIfSupported(r, a, fa) ==
    IF r.outcome # "running" THEN r
    ELSE IF hasattr(a.estimator, "predict_proba") THEN RocPlot(r, a, fa)
    ELSE r

SingleFit(r, a, fa) == RocIfSupported(Evaluate(r, a, fa), a, fa)

\* Variant of Mode: the else is missing, the single fit also runs after
\* (or without) the cross-validation.
ModeFallingThrough(r, a, fa, foldScores) ==
    SingleFit(CrossValidate(r, scorers, a, fa, foldScores), a, fa)

\* if cross_validate: ... else: ...
Mode(r, a, fa, foldScores) ==
    IF r.outcome # "running" THEN r
    ELSE IF a.cross_validate THEN CrossValidate(r, scorers, a, fa, foldScores)
    ELSE SingleFit(r, a, fa)

\* The whole function: the four null checks, then the selected mode; the
\* function falls off its end, returning None.
train_classifier(a, fa, foldScores) ==
    LET missing == NullCheck(a)
        r0 == IF missing # "" THEN Raise(Start, "ValueError", missing \o " is None")
              ELSE Start
    IN  Return(Mode(r0, a, fa, foldScores), None)

\* ------------------------------------------------------------------ feature_importance

\* The local frame of a call feature_importance(estimator, col_name): the
\* parameters are the function's only local names.
Frame(est, col_name) == [estimator |-> est, col_name |-> col_name]

\* Whether a name read in the body of feature_importance is bound: a local
\* of the frame or a module global (none of the names below is a builtin).
IsBound(name, frame) == name \in DOMAIN frame \/ name \in ModuleGlobals

\* The value a bound name evaluates to; a module global is a function or
\* module object, not a list.
Lookup(name, frame) ==
    IF name \in DOMAIN frame THEN frame[name]
    ELSE [type |-> "object", items |-> <<>>]

Reverse(s) == [i \in 1..Len(s) |-> s[Len(s) + 1 - i]]

\* Insertion of row p into rows sorted ascending by score, behind the rows
\* of equal score.
RECURSIVE InsertAscending(_, _)
InsertAscending(rows, p) ==
    IF rows = <<>> THEN <<p>>
    ELSE IF p[2] < Head(rows)[2] THEN <<p>> \o rows
    ELSE <<Head(rows)>> \o InsertAscending(Tail(rows), p)

RECURSIVE SortAscending(_)
SortAscending(rows) ==
    IF rows = <<>> THEN <<>>
    ELSE InsertAscending(SortAscending(Take(rows, Len(rows) - 1)), rows[Len(rows)])

\* pd.DataFrame({"features": names, "importance": scores})
DataFrame(names, scores) == [i \in 1..Len(names) |-> <<names[i], scores[i]>>]

\* DataFrame.sort_values(by='importance', ascending=False): pandas reverses
\* the rows, argsorts them ascending and reverses the result; numpy's
\* default sort is an insertion sort for the at most 16 rows modelled here.
sort_values(rows) == Reverse(SortAscending(Reverse(rows)))

\* Variant of CheckEstimator: the check is missing.
CheckEstimatorOmitted(r, est) == r

\* if not hasattr(estimator, 'feature_importances_'): raise ValueError(...)
CheckEstimator(r, est) ==
    IF r.outcome # "running" THEN r
    ELSE IF ~hasattr(est, "feature_importances_")
    THEN Raise(r, "ValueError", "The estimator does not have a 'feature_importances_' attribute.")
    ELSE r

\* if not isinstance(col_names, list) or len(col_names) != len(...): raise
\* ValueError(...).  The condition reads the name col_names.
CheckNames(r, est, frame) ==
    IF r.outcome # "running" THEN r
    ELSE IF ~IsBound("col_names", frame)
    THEN Raise(r, "NameError", "name 'col_names' is not defined")
    ELSE LET col_names == Lookup("col_names", frame)
         IN  IF col_names.type # "list"
                \/ Len(col_names.items) # Len(est.feature_importances_)
             THEN Raise(r, "ValueError", "The 'col_names' argument should be a list of the same length as the feature importances.")
             ELSE r

\* The table and the bar chart.
BuildAndPlot(r, est, frame, fa) ==
    IF r.outcome # "running" THEN r
    ELSE LET col_names == Lookup("col_names", frame)
             r1 == Call(r, fa, "DataFrame", "col_names", "feature_importances_", 0)
             r2 == Call(r1, fa, "sort_values", "importance", "", 0)
             r3 == IF r2.outcome # "running" THEN r2
                   ELSE [r2 EXCEPT !.table =
                            sort_values(DataFrame(col_names.items, est.feature_importances_))]
             r4 == Call(r3, fa, "subplots", "", "", 0)
             r5 == Call(r4, fa, "barplot", "features", "importance", 0)
             r6 == Call(r5, fa, "get_xticklabels", "", "", 0)
             r7 == Call(r6, fa, "set_xticklabels", "", "", 90)
         IN  Call(r7, fa, "set_title", "Feature importance plot", "", 0)

\* The whole function; it returns the figure and the axes.
feature_importance(est, col_name, fa) ==
    LET frame == Frame(est, col_name)
        r1 == CheckEstimator(Start, est)
        r2 == CheckNames(r1, est, frame)
    IN  Return(BuildAndPlot(r2, est, frame, fa), "(fig, ax)")

\* ------------------------------------------------------------------ module import

\* matplotlib.pyplot.switch_backend(newbackend): the parameter is required.
switch_backend(callArgs) ==
    IF Len(callArgs) # 1
    THEN [ok |-> FALSE, exc |-> "TypeError", newbackend |-> ""]
    ELSE [ok |-> TRUE, exc |-> "", newbackend |-> callArgs[1]]

\* The arguments the module body passes to plt.switch_backend.
BackendCallArgs(p) == IF p = "Darwin" THEN <<>> ELSE <<"Agg">>

\* ------------------------------------------------------------------ inputs

DataArgs == {None, Data}

\* What an estimator's predict_proba returns: a matrix with a column per
\* class (two or more), a matrix of a single column (a classifier fitted on
\* one class), or a plain list of rows.
ProbaKinds == {"two_columns", "one_column", "list_of_rows"}

NoEstimator ==
    [isNone |-> TRUE, attrs |-> {}, feature_importances_ |-> <<>>, proba |-> "none"]

\* Estimators handed to train_classifier: None, or an object exposing any
\* of fit, predict, predict_proba; one exposing predict_proba returns one
\* of the kinds of value above from it.
TrainEstimators ==
    {NoEstimator} \cup
    {[isNone |-> FALSE, attrs |-> A, feature_importances_ |-> <<>>, proba |-> "none"] :
        A \in SUBSET {"fit", "predict"}}
    \cup
    {[isNone |-> FALSE, attrs |-> A \cup {"predict_proba"},
      feature_importances_ |-> <<>>, proba |-> k] :
        A \in SUBSET {"fit", "predict"}, k \in ProbaKinds}

\* Estimators handed to feature_importance: None, an unfitted object, or a
\* fitted one with its importance scores.
ImportanceEstimators ==
    {NoEstimator,
     [isNone |-> FALSE, attrs |-> {"fit", "predict"}, feature_importances_ |-> <<>>,
      proba |-> "none"]}
    \cup
    {[isNone |-> FALSE, attrs |-> {"fit", "predict", "feature_importances_"},
      feature_importances_ |-> f, proba |-> "none"] : f \in SeqsUpTo(0..MaxScore, MaxFeat)}

\* Values of the name argument: None (the default), a string, or a list.
NameArgs ==
    {[type |-> "NoneType", items |-> <<>>], [type |-> "str", items |-> <<>>]}
    \cup {[type |-> "list", items |-> n] : n \in SeqsUpTo(FeatureNames, MaxFeat)}

\* Fold scores the cross-validation would return: each 0.0 or 1.0.
FoldScores == [1..MaxCv -> 0..1]

\* ------------------------------------------------------------------ actions

Init ==
    /\ platform \in Platforms
    /\ module = "unloaded"
    /\ backend = "default"
    /\ switches = 0
    /\ fn = "none"
    /\ args = <<>>
    /\ failAt = 0
    /\ log = <<>>
    /\ outcome = "none"
    /\ msg = ""
    /\ ret = "unset"
    /\ table = <<>>

\* import data_help.modelling: the module body runs once.
ImportModule ==
    /\ module = "unloaded"
    /\ LET res == switch_backend(BackendCallArgs(platform))
       IN  /\ module' = IF res.ok THEN "loaded" ELSE "import_failed"
           /\ backend' = IF res.ok THEN res.newbackend ELSE backend
           /\ switches' = IF res.ok THEN switches + 1 ELSE switches
           /\ outcome' = IF res.ok THEN "returned" ELSE res.exc
    /\ fn' = "<module>"
    /\ args' = <<>>
    /\ failAt' = 0
    /\ log' = <<>>
    /\ msg' = ""
    /\ ret' = "unset"
    /\ table' = <<>>
    /\ UNCHANGED platform

\* A call of train_classifier by the importing program.  The functions keep
\* nothing from one call to the next, so a behaviour follows the import by
\* one call, made with any arguments in any environment.
TrainClassifier ==
    /\ module = "loaded"
    /\ fn = "<module>"
    /\ \E xt \in DataArgs, yt \in DataArgs, xv \in DataArgs, yv \in DataArgs,
          est \in TrainEstimators, cval \in BOOLEAN, k \in 2..MaxCv,
          fa \in 0..MaxFailAt, fs \in FoldScores :
          LET a == [X_train |-> xt, y_train |-> yt, X_val |-> xv, y_val |-> yv,
                    estimator |-> est, cross_validate |-> cval, cv |-> k]
              r == train_classifier(a, fa, fs)
          IN  /\ fn' = "train_classifier"
              /\ args' = a
              /\ failAt' = fa
              /\ log' = r.log
              /\ outcome' = r.outcome
              /\ msg' = r.msg
              /\ ret' = r.ret
              /\ table' = r.table
    /\ UNCHANGED <<platform, module, backend, switches>>

\* A call of feature_importance by the importing program.
FeatureImportance ==
    /\ module = "loaded"
    /\ fn = "<module>"
    /\ \E est \in ImportanceEstimators, cn \in NameArgs, fa \in 0..MaxFailAt :
          LET r == feature_importance(est, cn, fa)
          IN  /\ fn' = "feature_importance"
              /\ args' = [estimator |-> est, col_name |-> cn]
              /\ failAt' = fa
              /\ log' = r.log
              /\ outcome' = r.outcome
              /\ msg' = r.msg
              /\ ret' = r.ret
              /\ table' = r.table
    /\ UNCHANGED <<platform, module, backend, switches>>

Next == ImportModule \/ TrainClassifier \/ FeatureImportance

Spec == Init /\ [][Next]_vars

\* ------------------------------------------------------------------ properties

RequiredArgs == {"X_train", "y_train", "X_val", "y_val"}

MetricNames == {scorers[i][1] : i \in 1..Len(scorers)}

\* The operations of the ROC part of the single-fit branch.
RocOps == {"predict_proba", "roc_curve", "roc_auc_score", "plot", "xlabel", "ylabel", "title"}

\* The last call was train_classifier.
TrainCall == fn = "train_classifier"

\* ... with no required argument None.
ValidTrainCall == TrainCall /\ \A p \in RequiredArgs : args[p] # None

SingleFitCall == ValidTrainCall /\ ~args.cross_validate

CrossValidateCall == ValidTrainCall /\ args.cross_validate

\* The last call was feature_importance.
ImportanceCall == fn = "feature_importance"

LogHas(op) == \E i \in 1..Len(log) : log[i].op = op

CountOp(op) == Cardinality({i \in 1..Len(log) : log[i].op = op})

\* The environment makes none of the first n collaborator calls raise.
NoFaultWithin(n) == failAt = 0 \/ failAt > n

\* C1: a call of train_classifier in which exactly one of X_train, y_train,
\* X_val, y_val is None fails, for either value of cross_validate, with a
\* ValueError naming that argument, and has made no fit, predict,
\* cross-validation, print or plot call.
C1_NullArgumentRejected ==
    TrainCall =>
        \A p \in RequiredArgs :
            (args[p] = None /\ \A q \in RequiredArgs \ {p} : args[q] # None)
            => /\ outcome = "ValueError"
               /\ msg = p \o " is None"
               /\ log = <<>>
               /\ ret = "unset"

C1_Witness ==
    /\ TrainCall
    /\ args.y_val = None
    /\ \A q \in RequiredArgs \ {"y_val"} : args[q] # None
    /\ args.cross_validate
    /\ hasattr(args.estimator, "fit")
    /\ outcome = "ValueError"

\* C2 (as claimed): feature_importance called with an estimator that has
\* importance scores and a name argument that is not a list, or a list of
\* another length, fails with a ValueError and produces no figure.
C2_NameListMismatchIsValueError ==
    (/\ ImportanceCall
     /\ hasattr(args.estimator, "feature_importances_")
     /\ \/ args.col_name.type # "list"
        \/ Len(args.col_name.items) # Len(args.estimator.feature_importances_))
    => /\ outcome = "ValueError"
       /\ ~LogHas("subplots")
       /\ ret = "unset"

\* C3 (as claimed): feature_importance called with an estimator that has
\* importance scores and a name list of the same length completes without
\* error, and the table it builds is the (name, score) pairs ordered by
\* score descending, pairs of equal score in their input order.
C3_SortedTableBuilt ==
    (/\ ImportanceCall
     /\ hasattr(args.estimator, "feature_importances_")
     /\ args.col_name.type = "list"
     /\ Len(args.col_name.items) = Len(args.estimator.feature_importances_)
     /\ failAt = 0)
    => /\ outcome = "returned"
       /\ LET names == args.col_name.items
              scores == args.estimator.feature_importances_
              n == Len(names)
          IN  \E pi \in Permutations(1..n) :
                /\ table = [i \in 1..n |-> <<names[pi[i]], scores[pi[i]]>>]
                /\ \A i \in 1..n : \A j \in 1..n :
                      i < j => \/ scores[pi[i]] > scores[pi[j]]
                               \/ scores[pi[i]] = scores[pi[j]] /\ pi[i] < pi[j]

\* C4: feature_importance called with an estimator that lacks the
\* importance-scores attribute (None included), whatever the name argument,
\* fails with the ValueError of the first check: the name list has not been
\* examined and no figure has been created.
C4_MissingCapabilityFirst ==
    (ImportanceCall /\ ~hasattr(args.estimator, "feature_importances_"))
    => /\ outcome = "ValueError"
       /\ msg = "The estimator does not have a 'feature_importances_' attribute."
       /\ log = <<>>
       /\ table = <<>>
       /\ ret = "unset"

C4_Witness ==
    /\ ImportanceCall
    /\ args.estimator.isNone
    /\ args.col_name.type = "list"
    /\ Len(args.col_name.items) = 2
    /\ outcome = "ValueError"

\* C5 (as claimed): train_classifier with cross_validate=True, non-null
\* arguments, a valid estimator and cv=k, in an environment where no
\* collaborator fails for reasons of its own, runs cross-validation once
\* for each of Accuracy, F1-score, Precision, Recall in this order, each
\* run evaluating k folds over (X_train, y_train), prints after each run
\* one line with the metric's name and the mean of its k fold scores, and
\* completes having printed four lines.
C5_FourMetricsCrossValidated ==
    (/\ CrossValidateCall
     /\ {"fit", "predict"} \subseteq args.estimator.attrs
     /\ failAt = 0)
    => /\ outcome = "returned"
       /\ Len(log) = 2 * Len(scorers)
       /\ \A m \in 1..Len(scorers) :
             /\ log[2 * m - 1].op = "cross_val_score"
             /\ log[2 * m - 1].ok
             /\ log[2 * m - 1].x = "X_train"
             /\ log[2 * m - 1].y = "y_train"
             /\ log[2 * m - 1].n = args.cv
             /\ Len(log[2 * m - 1].val) = args.cv
             /\ log[2 * m].op = "print"
             /\ log[2 * m].x = scorers[m][1]
             /\ log[2 * m].val[1] = Mean4(log[2 * m - 1].val)

\* C6: in single-fit mode the ROC computation and the plot calls happen if
\* and only if the estimator exposes predict_proba.  An estimator with fit
\* and predict but without predict_proba completes the call (when none of
\* its four collaborator calls fails) with no predict_proba, ROC or plot
\* call; a call that completes with an estimator exposing predict_proba
\* has made exactly one predict_proba call, on X_val, then drawn the ROC
\* curve and then the diagonal; it completes when no collaborator call
\* fails and predict_proba returns a column per class (the module's own
\* subscript [:, 1] raises on any other value, after the predict_proba
\* call and before any ROC or plot call).  The figure is never saved or
\* shown.
C6_RocIffPredictProba ==
    SingleFitCall =>
        /\ (\E i \in 1..Len(log) : log[i].op \in RocOps)
              => hasattr(args.estimator, "predict_proba")
        /\ (/\ ~hasattr(args.estimator, "predict_proba")
            /\ {"fit", "predict"} \subseteq args.estimator.attrs
            /\ NoFaultWithin(4))
              => outcome = "returned"
        /\ (/\ {"fit", "predict", "predict_proba"} \subseteq args.estimator.attrs
            /\ args.estimator.proba = "two_columns"
            /\ failAt = 0)
              => outcome = "returned"
        /\ (hasattr(args.estimator, "predict_proba") /\ outcome = "returned")
              => /\ args.estimator.proba = "two_columns"
                 /\ CountOp("predict_proba") = 1
                 /\ \E i \in 1..Len(log) : \E j \in 1..Len(log) : \E k \in 1..Len(log) :
                       /\ i < j /\ j < k
                       /\ log[i].op = "predict_proba" /\ log[i].x = "X_val"
                       /\ log[j].op = "plot" /\ log[j].x = "fpr" /\ log[j].y = "tpr"
                       /\ log[k].op = "plot" /\ log[k].x = "[0, 1]" /\ log[k].y = "[0, 1]"
        /\ ~LogHas("savefig")
        /\ ~LogHas("show")

C6_Witness ==
    /\ SingleFitCall
    /\ ~hasattr(args.estimator, "predict_proba")
    /\ outcome = "returned"
    /\ Len(log) = 6

\* C7: the two modes exclude each other.  With cross_validate=True the
\* call makes only cross-validation calls and metric prints: no fit or
\* predict on the caller's estimator, no use of X_val or y_val, no
\* classification report or confusion matrix, no plot call.  With
\* cross_validate=False it makes no cross-validation call.  A call that
\* returns, in either mode, returns None.
C7_ModesExclusive ==
    ValidTrainCall =>
        /\ args.cross_validate =>
              \A i \in 1..Len(log) :
                 /\ log[i].op \in {"cross_val_score", "print"}
                 /\ log[i].op = "print" => log[i].x \in MetricNames
                 /\ {log[i].x, log[i].y} \cap {"X_val", "y_val"} = {}
        /\ ~args.cross_validate => ~LogHas("cross_val_score")
        /\ outcome = "returned" => ret = None

C7_Witness ==
    /\ CrossValidateCall
    /\ {"fit", "predict", "predict_proba"} \subseteq args.estimator.attrs
    /\ Len(log) = 1
    /\ log[1].op = "cross_val_score"

\* C8 (as claimed): loading the module completes without error on every
\* platform, having selected the backend exactly once: Agg on every
\* platform but Darwin, an interactive backend on Darwin.
C8_ImportSelectsBackendEverywhere ==
    module # "unloaded" =>
        /\ module = "loaded"
        /\ switches = 1
        /\ platform # "Darwin" => backend = "Agg"
        /\ platform = "Darwin" => backend \notin {"Agg", "default"}

\* C9: a failure raised by a collaborator call inside train_classifier
\* ends the call: the failing call is the last entry of the log (no later
\* metric run, print or plot, no retry), the call does not return, and the
\* exception is the collaborator's.
C9_CollaboratorFailureTerminal ==
    TrainCall =>
        \A i \in 1..Len(log) :
            ~log[i].ok
            => /\ i = Len(log)
               /\ outcome \in {"CollaboratorError", "ValueError"}
               /\ outcome = "CollaboratorError" => msg = log[i].op
               /\ ret = "unset"

C9_Witness ==
    /\ SingleFitCall
    /\ hasattr(args.estimator, "predict_proba")
    /\ failAt = 3
    /\ Len(log) = 3
    /\ ~log[3].ok
    /\ outcome = "CollaboratorError"

\* The first six entries of the log of a single-fit call that completes.
SingleFitOrder ==
    << Ev("fit", "X_train", "y_train", 0, <<>>, TRUE),
       Ev("predict", "X_val", "", 0, <<>>, TRUE),
       Ev("classification_report", "y_val", "y_pred", 0, <<>>, TRUE),
       Ev("print", "classification_report", "", 0, <<>>, TRUE),
       Ev("confusion_matrix", "y_val", "y_pred", 0, <<>>, TRUE),
       Ev("print", "confusion_matrix", "", 0, <<>>, TRUE) >>

\* C10: a single-fit call performs, in this order and each at most once:
\* fit on (X_train, y_train), predict on X_val, print of the
\* classification report, print of the confusion matrix, and only then
\* any ROC work.  predict is never called before a fit of this call has
\* returned, and fit is the only mutating method the call invokes on the
\* estimator.
C10_SingleFitOrder ==
    SingleFitCall =>
        /\ \A i \in 1..Len(log) :
              /\ i <= Len(SingleFitOrder) =>
                    /\ log[i].op = SingleFitOrder[i].op
                    /\ log[i].x = SingleFitOrder[i].x
                    /\ log[i].y = SingleFitOrder[i].y
              /\ i > Len(SingleFitOrder) => log[i].op \in RocOps
              /\ log[i].op = "predict" =>
                    \E j \in 1..(i - 1) : log[j].op = "fit" /\ log[j].ok
              /\ log[i].op \in EstimatorAttrs =>
                    log[i].op \in {"fit", "predict", "predict_proba"}
        /\ CountOp("fit") <= 1
        /\ CountOp("predict") <= 1
        /\ outcome = "returned" => Len(log) >= Len(SingleFitOrder)

C10_Witness ==
    /\ SingleFitCall
    /\ outcome = "returned"
    /\ Len(log) = 14
    /\ log[1].op = "fit"
    /\ log[2].op = "predict"

====
